---- MODULE Spec2Model ----
(***************************************************************************)
(* Model of scripts/speaker_diarize.py: the speech activity detector       *)
(* (detect_speech_regions), the k-means++ clusterer (kmeans_pp_init,       *)
(* run_kmeans), the silhouette score, the cluster count selector           *)
(* (choose_speaker_count) and the segment assembler (diarize).             *)
(*                                                                         *)
(* Units.  Times are integers in milliseconds (the code's seconds * 1000). *)
(* Frame RMS values are integers in units of 0.001.  Feature vectors are   *)
(* one-dimensional integers in units of 1/Scale, so that the mean of any   *)
(* non-empty subset of the points is again an integer.  The comparisons of *)
(* times against 0.65, 0.35 and 0.45 s follow the code's float64 outcome   *)
(* where the exact values tie; the arithmetic of the clusterer and of the  *)
(* silhouette score is exact (its float rounding is not modelled).         *)
(*                                                                         *)
(* The numpy random generator is modelled as a nondeterministic choice     *)
(* among the indices it can return.                                        *)
(***************************************************************************)
EXTENDS Integers, Sequences, FiniteSets, TLC

VARIABLES
    pc,            \* position in the running function
    stack,         \* return positions of the pending calls
    audio,         \* frame RMS track of the decoded buffer, run-length encoded
    min_speakers,  \* diarize / choose_speaker_count argument
    max_speakers,  \* diarize / choose_speaker_count argument
    speech_mask,   \* detect_speech_regions: rms > threshold, before hole filling
    fixed,         \* detect_speech_regions: the mask after hole filling
    regions,       \* detect_speech_regions: raw (s, e) runs
    speech,        \* detect_speech_regions: its return value (merged)
    x,             \* feature matrix, one (1-dimensional) row per interval
    km,            \* locals of run_kmeans / kmeans_pp_init
    csc,           \* locals of choose_speaker_count
    dia,           \* locals of diarize after feature extraction
    result         \* return value of the function the specification runs

vars == <<pc, stack, audio, min_speakers, max_speakers, speech_mask, fixed,
          regions, speech, x, km, csc, dia, result>>

(***************************************************************************)
(* Bounds of the model.                                                    *)
(***************************************************************************)
MaxRuns == 5        \* runs of equal RMS in a track given to detect_speech_regions
MaxTrackRuns == 5   \* runs of equal RMS in a track given to diarize
MaxPoints == 3      \* rows of x given to choose_speaker_count
MaxKmPoints == 4    \* rows of x given to run_kmeans
MaxSpeakers == 4    \* largest min_speakers / max_speakers argument

\* Run lengths (frames) a generated track is built from: around the hole
\* window (12), the merge gap (37/38 silent frames = 0.35/0.36 s) and the
\* minimum duration (63 frames = 0.65 s).
RunLens == {1, 2, 12, 37, 38, 63}
\* Run lengths of the tracks given to diarize: silent gaps of 0.45 s and
\* 0.46 s (at and above max_merge_gap) and a run of 0.66 s, which is kept.
TrackLens == {47, 48, 64}
Quiet == 5          \* RMS 0.005
Loud == 300         \* RMS 0.300
\* Feature values (before scaling) the rows of x are drawn from.
PointVals == {0, 1, 5}

(***************************************************************************)
(* Program constants.                                                      *)
(***************************************************************************)
sr == 16000
frame_size == (3 * sr) \div 100          \* int(0.03 * sr)
hop_size == sr \div 100                  \* int(0.01 * sr)
hole == (12 * sr) \div (100 * hop_size)  \* int(0.12 / (hop_size / sr))
min_duration == 650                      \* 0.65 s
max_gap == 350                           \* 0.35 s
max_merge_gap == 450                     \* 0.45 s
max_iter == 60
FixedFloor == 15                         \* 0.015, in RMS units of 0.001

(***************************************************************************)
(* Generic helpers.                                                        *)
(***************************************************************************)
Range(s) == {s[i] : i \in DOMAIN s}

Max2(a, b) == IF a >= b THEN a ELSE b

Min2(a, b) == IF a <= b THEN a ELSE b

Abs(a) == IF a < 0 THEN -a ELSE a

RECURSIVE SumSeq(_)
SumSeq(s) == IF s = <<>> THEN 0 ELSE Head(s) + SumSeq(Tail(s))

RECURSIVE Gcd(_, _)
Gcd(a, b) == IF b = 0 THEN a ELSE Gcd(b, a % b)

Lcm(a, b) == (a * b) \div Gcd(a, b)

RECURSIVE LcmUpTo(_)
LcmUpTo(n) == IF n <= 1 THEN 1 ELSE Lcm(n, LcmUpTo(n - 1))

(***************************************************************************)
(* frame_audio + per-frame RMS: the track as one RMS value per frame.      *)
(***************************************************************************)
RECURSIVE Expand(_)
Expand(track) ==
    IF track = <<>> THEN <<>>
    ELSE [i \in 1..Head(track)[1] |-> Head(track)[2]] \o Expand(Tail(track))

\* The track of runs of lengths ls whose levels alternate, the first run
\* being loud or quiet.
TrackOf(ls, firstLoud) ==
    [i \in DOMAIN ls |-> <<ls[i], IF (i % 2 = 1) = firstLoud THEN Loud ELSE Quiet>>]

\* The initial condition: audio is a track of at most maxRuns runs.
AudioIsTrack(maxRuns, lens) ==
    \E m \in 0..maxRuns : \E ls \in [1..m -> lens] : \E firstLoud \in BOOLEAN :
        audio = TrackOf(ls, firstLoud)

(***************************************************************************)
(* detect_speech_regions                                                   *)
(***************************************************************************)
\* The i-th smallest value (0-based) of a sequence: np.sort(rms)[i].
SortedAt(rms, i) ==
    CHOOSE v \in Range(rms) :
        /\ Cardinality({j \in DOMAIN rms : rms[j] < v}) <= i
        /\ Cardinality({j \in DOMAIN rms : rms[j] <= v}) > i

\* 5 * np.percentile(rms, 20): linear interpolation at position 0.2 * (n - 1).
Percentile20x5(rms) ==
    LET n == Len(rms)
        lo == (n - 1) \div 5
        rem == (n - 1) % 5
    IN  IF rem = 0 THEN 5 * SortedAt(rms, lo)
        ELSE 5 * SortedAt(rms, lo) + rem * (SortedAt(rms, lo + 1) - SortedAt(rms, lo))

\* A threshold that leaves out the noise floor.
IsActiveFixedFloor(v, nf5) == v > FixedFloor

\* rms > max(noise_floor * 2.2, 0.015)
IsActive(v, nf5) == v > FixedFloor /\ 25 * v > 11 * nf5

SpeechMask(rms) ==
    LET nf5 == Percentile20x5(rms)
    IN  [i \in DOMAIN rms |-> IsActive(rms[i], nf5)]

\* Frame i is 0-based as in the code; mask[i + 1] is its entry.
HoleFilled(mask, i) ==
    /\ ~mask[i + 1]
    /\ \A j \in (i - hole)..(i - 1) : mask[j + 1]
    /\ \A j \in (i + 1)..(i + hole) : mask[j + 1]

HoleFill(mask) ==
    IF hole > 0 /\ Len(mask) > 2 * hole
    THEN [p \in DOMAIN mask |->
            IF (p - 1) \in hole..(Len(mask) - hole - 1) /\ HoleFilled(mask, p - 1)
            THEN TRUE ELSE mask[p]]
    ELSE mask

\* (s, e) of the run of frames start..end, in milliseconds.
RunInterval(start, end) ==
    << (start * hop_size * 1000) \div sr,
       (end * hop_size * 1000) \div sr + (frame_size * 1000) \div sr >>

\* The scan of lines 142-158.  A region opens at an active frame that follows
\* an inactive one (or the start) and closes at the last active frame before
\* the next inactive one (or the end of the mask); regions are appended in
\* frame order.
RunStarts(mask) ==
    {i \in 0..(Len(mask) - 1) : mask[i + 1] /\ (i = 0 \/ ~mask[i])}

RunEnd(mask, start) ==
    CHOOSE e \in start..(Len(mask) - 1) :
        /\ \A j \in start..e : mask[j + 1]
        /\ (e = Len(mask) - 1 \/ ~mask[e + 2])

RECURSIVE Ascending(_)
Ascending(S) ==
    IF S = {} THEN <<>>
    ELSE LET m == CHOOSE a \in S : \A b \in S : a <= b
         IN  <<m>> \o Ascending(S \ {m})

RawRegions(mask) ==
    LET starts == Ascending(RunStarts(mask))
    IN  [n \in DOMAIN starts |-> RunInterval(starts[n], RunEnd(mask, starts[n]))]

(***************************************************************************)
(* The comparisons of times.  Every time is S(f) = f * hop_size / sr or     *)
(* E(f) = f * hop_size / sr + frame_size / sr for a frame f, computed in    *)
(* IEEE doubles; the model holds it as the exact number of milliseconds,    *)
(* which names f.  A comparison of a difference of two times with a         *)
(* threshold comes out as in exact arithmetic unless the exact difference   *)
(* equals the threshold; then the rounding of the operands decides, and the *)
(* sets below list, for frames below 500, where it decides against the      *)
(* exact value.                                                            *)
(***************************************************************************)
\* Start frames f < 500 for which the run f..f+62, 0.65 s long, is measured as
\* e - s < 0.65 by the doubles of lines 149-150 and 166.
RoundsBelowMinDuration ==
    {7, 20, 352, 356, 360, 377, 381, 385, 415, 419, 423, 440, 444, 448, 465,
    469, 473, 490, 494, 498} \cup (32..34) \cup (51..56) \cup (76..81) \cup
    (101..112) \cup (126..336) \cup (339..340) \cup (343..344) \cup (347..348)
    \cup (364..365) \cup (368..369) \cup (372..373) \cup (389..390) \cup
    (393..394) \cup (397..398)

\* End frames p < 500 for which the 0.35 s gap to a run starting at frame p + 38
\* is measured as s - prev_e > 0.35 by the doubles of lines 149-150 and 172.
RoundsAboveMaxGap ==
    {8, 164, 166, 168, 170, 172, 174, 176, 178, 180, 182, 184, 186, 189, 191,
    193, 195, 398, 402, 406, 410, 427, 431, 435, 452, 456, 460, 477, 481, 485}
    \cup (1..2) \cup (15..18) \cup (29..30) \cup (41..43) \cup (69..74) \cup
    (94..99) \cup (113..124) \cup (138..149) \cup (197..363) \cup (365..367)
    \cup (369..371) \cup (373..388) \cup (390..392) \cup (394..396)

\* End frames p < 500 for which the 0.45 s gap to an interval starting at frame
\* p + 48 is measured as r.start - prev.end > 0.45 by the doubles of line 411.
RoundsAboveMergeGap ==
    {164, 166, 168, 170, 172, 174, 176, 189, 191, 193, 195} \cup (6..8) \cup
    (18..20) \cup (29..33) \cup (41..45) \cup (57..64) \cup (82..89) \cup
    (113..114) \cup (138..139) \cup (197..353) \cup (355..357) \cup (359..361)
    \cup (363..365) \cup (367..369) \cup (371..373) \cup (375..378) \cup
    (380..382) \cup (384..386) \cup (388..390) \cup (392..394) \cup (396..398)
    \cup (400..402) \cup (405..406) \cup (409..410) \cup (413..414) \cup
    (417..418) \cup (421..422) \cup (425..427) \cup (430..431) \cup (434..435)
    \cup (438..439) \cup (442..443) \cup (446..447) \cup (450..452) \cup
    (455..456) \cup (459..460) \cup (463..464) \cup (467..468) \cup (471..472)
    \cup (475..477) \cup (480..481) \cup (484..485) \cup (488..489) \cup
    (492..493) \cup (496..497)


StartFrame(s) == (s * sr) \div (hop_size * 1000)

EndFrame(e) == ((e - (frame_size * 1000) \div sr) * sr) \div (hop_size * 1000)

\* line 166: e - s < min_duration
Shorter(s, e) ==
    IF e - s = min_duration THEN StartFrame(s) \in RoundsBelowMinDuration
    ELSE e - s < min_duration

\* line 172: s - prev_e <= max_gap
WithinGap(s, prev_e) ==
    IF s - prev_e = max_gap THEN EndFrame(prev_e) \notin RoundsAboveMaxGap
    ELSE s - prev_e < max_gap

\* line 411: r.start - prev["end"] <= max_merge_gap
WithinMergeGap(start, prev_end) ==
    IF start - prev_end = max_merge_gap THEN EndFrame(prev_end) \notin RoundsAboveMergeGap
    ELSE start - prev_end < max_merge_gap

\* A merge that leaves out a gap of exactly max_gap.
MergeStepStrict(merged, r) ==
    IF Shorter(r[1], r[2]) THEN merged
    ELSE IF merged = <<>> THEN <<r>>
    ELSE LET prev == merged[Len(merged)]
         IN  IF r[1] - prev[2] < max_gap
             THEN [merged EXCEPT ![Len(merged)] = <<prev[1], r[2]>>]
             ELSE Append(merged, r)

\* One step of the loop of lines 165-175.
MergeStep(merged, r) ==
    IF Shorter(r[1], r[2]) THEN merged
    ELSE IF merged = <<>> THEN <<r>>
    ELSE LET prev == merged[Len(merged)]
         IN  IF WithinGap(r[1], prev[2])
             THEN [merged EXCEPT ![Len(merged)] = <<prev[1], r[2]>>]
             ELSE Append(merged, r)

RECURSIVE MergeRegions(_, _)
MergeRegions(rs, merged) ==
    IF rs = <<>> THEN merged
    ELSE MergeRegions(Tail(rs), MergeStep(merged, Head(rs)))

(***************************************************************************)
(* Actions of detect_speech_regions.                                       *)
(***************************************************************************)
Return(value) ==
    IF stack = <<>>
    THEN /\ pc' = "done"
         /\ result' = value
         /\ stack' = stack
    ELSE /\ pc' = Head(stack)
         /\ stack' = Tail(stack)
         /\ result' = result

\* lines 122-131: no frame, or the thresholded mask.
VadMask ==
    /\ pc = "vad_mask"
    /\ IF audio = <<>>
       THEN /\ speech' = <<>>
            /\ Return(<<>>)
            /\ UNCHANGED speech_mask
       ELSE /\ speech_mask' = SpeechMask(Expand(audio))
            /\ pc' = "vad_fill"
            /\ UNCHANGED <<speech, stack, result>>
    /\ UNCHANGED <<audio, min_speakers, max_speakers, fixed, regions, x, km, csc, dia>>

\* lines 133-140
VadFill ==
    /\ pc = "vad_fill"
    /\ fixed' = HoleFill(speech_mask)
    /\ pc' = "vad_runs"
    /\ UNCHANGED <<stack, audio, min_speakers, max_speakers, speech_mask, regions,
                   speech, x, km, csc, dia, result>>

\* lines 142-158
VadRuns ==
    /\ pc = "vad_runs"
    /\ regions' = RawRegions(fixed)
    /\ pc' = "vad_merge"
    /\ UNCHANGED <<stack, audio, min_speakers, max_speakers, speech_mask, fixed,
                   speech, x, km, csc, dia, result>>

\* lines 160-177
VadMerge ==
    /\ pc = "vad_merge"
    /\ speech' = MergeRegions(regions, <<>>)
    /\ Return(MergeRegions(regions, <<>>))
    /\ UNCHANGED <<audio, min_speakers, max_speakers, speech_mask, fixed, regions,
                   x, km, csc, dia>>

(***************************************************************************)
(* kmeans_pp_init and run_kmeans                                           *)
(***************************************************************************)
\* Every coordinate is a multiple of 1/Scale of the drawn feature value.
Scale == LcmUpTo(Max2(Max2(MaxPoints, MaxKmPoints), (MaxTrackRuns + 1) \div 2))

Points(n) == [1..n -> {v * Scale : v \in PointVals}]

\* Euclidean distance of two rows (pairwise_distances, one dimension).
Dist(a, b) == Abs(a - b)

SqDist(a, b) == (a - b) * (a - b)

\* np.argmin / np.argmax of a non-empty sequence: the first extremum, 0-based.
ArgMin(s) ==
    (CHOOSE j \in DOMAIN s :
        /\ \A l \in DOMAIN s : s[j] <= s[l]
        /\ \A l \in 1..(j - 1) : s[l] > s[j]) - 1

ArgMax(s) ==
    (CHOOSE j \in DOMAIN s :
        /\ \A l \in DOMAIN s : s[j] >= s[l]
        /\ \A l \in 1..(j - 1) : s[l] < s[j]) - 1

\* dist[i][j]: distance of point i to centre j (lines 273-274).
DistMatrix(pts, centers) ==
    [i \in DOMAIN pts |-> [j \in DOMAIN centers |-> Dist(pts[i], centers[j])]]

\* line 275: new_labels = argmin(dist, axis=1); labels are 0-based cluster ids.
NearestLabels(pts, centers) ==
    LET dist == DistMatrix(pts, centers)
    IN  [i \in DOMAIN pts |-> ArgMin(dist[i])]

Members(labels, j) == {i \in DOMAIN labels : labels[i] = j}

RECURSIVE SumOver(_, _)
SumOver(f, S) ==
    IF S = {} THEN 0
    ELSE LET i == CHOOSE a \in S : TRUE IN f[i] + SumOver(f, S \ {i})

\* A centre that is the largest member instead of the mean of the members.
MeanAsMax(pts, S) == CHOOSE v \in {pts[i] : i \in S} : \A i \in S : pts[i] <= v

\* np.mean(members, axis=0); exact, because coordinates are multiples of
\* 1/Scale and Scale is divisible by every cluster size.
Mean(pts, S) == SumOver(pts, S) \div Cardinality(S)

\* lines 283-284: the point farthest from its nearest centre.
Farthest(pts, centers) ==
    LET dist == DistMatrix(pts, centers)
        nearest == [i \in DOMAIN pts |-> dist[i][ArgMin(dist[i]) + 1]]
    IN  ArgMax(nearest)

\* lines 280-286: the centres after the update, given the new labels; the
\* reseed uses the distances to the centres as they were before the update.
UpdateCenters(pts, centers, labels) ==
    [j \in DOMAIN centers |->
        IF Members(labels, j - 1) = {}
        THEN pts[Farthest(pts, centers) + 1]
        ELSE Mean(pts, Members(labels, j - 1))]

\* lines 288-289
Inertia(pts, centers, labels) ==
    SumSeq([i \in DOMAIN pts |-> SqDist(pts[i], centers[labels[i] + 1])])

\* Indices rng.integers(0, n) / rng.choice(n, p=probs) can return (lines 249-260).
SeedChoices(closest) ==
    IF SumSeq(closest) = 0
    THEN {i - 1 : i \in DOMAIN closest}
    ELSE {i - 1 : i \in {l \in DOMAIN closest : closest[l] > 0}}

NoKm == [k |-> 0, centers |-> <<>>, labels |-> <<>>, closest |-> <<>>, c |-> 0,
         it |-> 0, inertia |-> 0]

\* The call run_kmeans(x, k, seed): the caller's continuation is pushed.
CallKmeans(k, retpc) ==
    /\ km' = [NoKm EXCEPT !.k = k]
    /\ stack' = <<retpc>> \o stack
    /\ pc' = "km_start"

\* lines 243-247 (first centre) and 271 (labels = zeros).
KmStart ==
    /\ pc = "km_start"
    /\ \E idx \in 0..(Len(x) - 1) :
          km' = [km EXCEPT
                   !.centers = [j \in 1..km.k |-> IF j = 1 THEN x[idx + 1] ELSE 0],
                   !.closest = [i \in DOMAIN x |-> SqDist(x[i], x[idx + 1])],
                   !.c = 1,
                   !.labels = [i \in DOMAIN x |-> 0],
                   !.it = 0]
    /\ pc' = IF km.k = 1 THEN "km_iter" ELSE "km_init"
    /\ UNCHANGED <<stack, audio, min_speakers, max_speakers, speech_mask, fixed,
                   regions, speech, x, csc, dia, result>>

\* lines 248-263: one further centre.
KmInit ==
    /\ pc = "km_init"
    /\ \E idx \in SeedChoices(km.closest) :
          km' = [km EXCEPT
                   !.centers = [km.centers EXCEPT ![km.c + 1] = x[idx + 1]],
                   !.closest = [i \in DOMAIN x |->
                                   Min2(km.closest[i], SqDist(x[i], x[idx + 1]))],
                   !.c = km.c + 1]
    /\ pc' = IF km.c + 1 = km.k THEN "km_iter" ELSE "km_init"
    /\ UNCHANGED <<stack, audio, min_speakers, max_speakers, speech_mask, fixed,
                   regions, speech, x, csc, dia, result>>

\* lines 272-286: one pass of the loop, or its end.
KmIterate ==
    /\ pc = "km_iter"
    /\ LET new_labels == NearestLabels(x, km.centers)
       IN  IF km.it = max_iter \/ new_labels = km.labels
           THEN /\ pc' = "km_final"
                /\ km' = km
           ELSE /\ pc' = "km_iter"
                /\ km' = [km EXCEPT
                            !.labels = new_labels,
                            !.centers = UpdateCenters(x, km.centers, new_labels),
                            !.it = km.it + 1]
    /\ UNCHANGED <<stack, audio, min_speakers, max_speakers, speech_mask, fixed,
                   regions, speech, x, csc, dia, result>>

\* lines 288-290
KmFinal ==
    /\ pc = "km_final"
    /\ km' = [km EXCEPT !.inertia = Inertia(x, km.centers, km.labels)]
    /\ Return([labels |-> km.labels, centers |-> km.centers,
               inertia |-> Inertia(x, km.centers, km.labels)])
    /\ UNCHANGED <<audio, min_speakers, max_speakers, speech_mask, fixed, regions,
                   speech, x, csc, dia>>

(***************************************************************************)
(* silhouette_score: exact rationals <<numerator, denominator>>.           *)
(***************************************************************************)
Rat(n, d) == LET g == Gcd(Abs(n), d) IN <<n \div g, d \div g>>

RLess(a, b) == a[1] * b[2] < b[1] * a[2]

RSub(a, b) == Rat(a[1] * b[2] - b[1] * a[2], a[2] * b[2])

RAdd(a, b) == Rat(a[1] * b[2] + b[1] * a[2], a[2] * b[2])

\* a / b for b > 0
RDiv(a, b) == Rat(a[1] * b[2], a[2] * b[1])

RMax(a, b) == IF RLess(a, b) THEN b ELSE a

RMinOf(S) == CHOOSE a \in S : \A b \in S : ~RLess(b, a)

RECURSIVE RSumSeq(_)
RSumSeq(s) == IF s = <<>> THEN <<0, 1>> ELSE RAdd(Head(s), RSumSeq(Tail(s)))

\* Sum of the distances of point i to the points of S.
DistSum(pts, i, S) == SumOver([j \in DOMAIN pts |-> Dist(pts[i], pts[j])], S)

\* lines 301-322: the score of point i.
PointScore(pts, labels, i) ==
    LET same == Members(labels, labels[i])
        same_count == Cardinality(same)
        a == IF same_count <= 1 THEN <<0, 1>>
             ELSE Rat(DistSum(pts, i, same), same_count - 1)
        b == RMinOf({ Rat(DistSum(pts, i, Members(labels, c)),
                          Cardinality(Members(labels, c))) :
                        c \in Range(labels) \ {labels[i]} })
        denom == RMax(a, b)
    IN  IF ~RLess(<<0, 1>>, denom) THEN <<0, 1>>
        ELSE RDiv(RSub(b, a), denom)

\* lines 293-324
silhouette_score(pts, labels) ==
    LET n == Len(pts)
        uniq == Range(labels)
    IN  IF Cardinality(uniq) <= 1 \/ Cardinality(uniq) >= n THEN <<-1, 1>>
        ELSE LET total == RSumSeq([i \in DOMAIN pts |-> PointScore(pts, labels, i)])
             IN  Rat(total[1], total[2] * n)

(***************************************************************************)
(* choose_speaker_count                                                    *)
(***************************************************************************)
\* float("inf") for best_inertia, None for best_for_k / best_labels.
Inf == -1

None == <<"None">>

InertiaLess(a, b) == b = Inf \/ a < b

\* The three restarts, seeds (7, 17, 31).
Seeds == 3

\* The lower end of the sweep (line 336), given min_k.
SweepFrom(min_k) == Max2(2, min_k)

\* A maximum that is not capped at the number of rows.
MaxKUncapped(maxsp, n) == maxsp

\* line 329
MaxK(maxsp, n) == Min2(maxsp, n)

\* line 330
MinK(minsp, max_k) == Min2(minsp, max_k)

NoCsc == [n |-> 0, max_k |-> 0, min_k |-> 0, k |-> 0, seed |-> 0,
          best_for_k |-> None, best_inertia |-> Inf, best_score |-> <<-1, 1>>,
          best_k |-> 0, ret |-> 0]

\* lines 328-336
CscStart ==
    /\ pc = "csc_start"
    /\ LET n == Len(x)
           max_k == MaxK(max_speakers, n)
           min_k == MinK(min_speakers, max_k)
       IN  IF n < 3 \/ max_k <= 1
           THEN /\ csc' = [NoCsc EXCEPT !.n = n, !.max_k = max_k, !.min_k = min_k,
                                        !.ret = 1]
                /\ Return(1)
           ELSE /\ csc' = [NoCsc EXCEPT !.n = n, !.max_k = max_k, !.min_k = min_k,
                                        !.best_k = 1, !.k = SweepFrom(min_k),
                                        !.seed = 1]
                /\ pc' = IF SweepFrom(min_k) <= max_k THEN "csc_seed" ELSE "csc_end"
                /\ UNCHANGED <<stack, result>>
    /\ UNCHANGED <<audio, min_speakers, max_speakers, speech_mask, fixed, regions,
                   speech, x, km, dia>>

\* lines 339-340: the next restart for this k, or on to the score.
CscSeed ==
    /\ pc = "csc_seed"
    /\ IF csc.seed <= Seeds
       THEN CallKmeans(csc.k, "csc_seed_ret")
       ELSE /\ pc' = "csc_score"
            /\ UNCHANGED <<stack, km>>
    /\ UNCHANGED <<audio, min_speakers, max_speakers, speech_mask, fixed, regions,
                   speech, x, csc, dia, result>>

\* lines 341-343
CscSeedRet ==
    /\ pc = "csc_seed_ret"
    /\ csc' = IF InertiaLess(km.inertia, csc.best_inertia)
              THEN [csc EXCEPT !.best_inertia = km.inertia, !.best_for_k = km.labels,
                               !.seed = csc.seed + 1]
              ELSE [csc EXCEPT !.seed = csc.seed + 1]
    /\ pc' = "csc_seed"
    /\ UNCHANGED <<stack, audio, min_speakers, max_speakers, speech_mask, fixed,
                   regions, speech, x, km, dia, result>>

\* lines 345-351, and the step of the loop over k.
CscScore ==
    /\ pc = "csc_score"
    /\ LET sil == IF csc.best_for_k = None THEN <<-1, 1>>
                  ELSE RSub(silhouette_score(x, csc.best_for_k), Rat(csc.k - 1, 50))
           better == csc.best_for_k # None /\ RLess(csc.best_score, sil)
       IN  csc' = [csc EXCEPT
                     !.best_score = IF better THEN sil ELSE csc.best_score,
                     !.best_k = IF better THEN csc.k ELSE csc.best_k,
                     !.k = csc.k + 1,
                     !.seed = 1,
                     !.best_for_k = None,
                     !.best_inertia = Inf]
    /\ pc' = IF csc.k + 1 <= csc.max_k THEN "csc_seed" ELSE "csc_end"
    /\ UNCHANGED <<stack, audio, min_speakers, max_speakers, speech_mask, fixed,
                   regions, speech, x, km, dia, result>>

\* lines 353-355
CscEnd ==
    /\ pc = "csc_end"
    /\ LET r == IF RLess(csc.best_score, <<1, 10>>) THEN 1 ELSE Max2(1, csc.best_k)
       IN  /\ csc' = [csc EXCEPT !.ret = r]
           /\ Return(r)
    /\ UNCHANGED <<audio, min_speakers, max_speakers, speech_mask, fixed, regions,
                   speech, x, km, dia>>

(***************************************************************************)
(* diarize                                                                 *)
(***************************************************************************)
EmptyResult == [segments |-> <<>>, num_speakers |-> 0]

\* f"Participant {idx + 1}"
ParticipantName(idx) == <<"Participant", idx + 1>>

FirstIndex(labels, l) == CHOOSE i \in DOMAIN labels :
    labels[i] = l /\ \A j \in 1..(i - 1) : labels[j] # l

\* lines 396-398: label_first_seen[label] = start of the first region with it.
FirstSeen(labels, sp, l) == sp[FirstIndex(labels, l)][1]

\* line 399: the dict's keys (in insertion order) sorted, stably, by first start.
RECURSIVE OrderKeys(_, _, _)
OrderKeys(keys, labels, sp) ==
    IF keys = {} THEN <<>>
    ELSE LET m == CHOOSE a \in keys : \A b \in keys :
                     \/ FirstSeen(labels, sp, a) < FirstSeen(labels, sp, b)
                     \/ /\ FirstSeen(labels, sp, a) = FirstSeen(labels, sp, b)
                        /\ FirstIndex(labels, a) <= FirstIndex(labels, b)
         IN  <<m>> \o OrderKeys(keys \ {m}, labels, sp)

Ordered(labels, sp) == OrderKeys(Range(labels), labels, sp)

\* An assignment of names by raw cluster id instead of by rank.
LabelNameByClusterId(ordered, label) == ParticipantName(label)

\* line 400: label_to_name[label]
LabelName(ordered, label) ==
    ParticipantName((CHOOSE i \in DOMAIN ordered : ordered[i] = label) - 1)

\* A merge test that leaves out a gap of exactly max_merge_gap.
ShouldMergeStrict(prev, start, speaker) ==
    prev.speaker = speaker /\ start - prev.end < max_merge_gap

\* line 411
ShouldMerge(prev, start, speaker) ==
    prev.speaker = speaker /\ WithinMergeGap(start, prev.end)

\* An extension that writes the new end into the start field.
ExtendStart(prev, end) == [prev EXCEPT !.start = Max2(prev.end, end)]

\* line 412
Extend(prev, end) == [prev EXCEPT !.end = Max2(prev.end, end)]

\* lines 404-414: one region.
SegmentStep(merged, r, speaker) ==
    IF merged = <<>>
    THEN <<[start |-> r[1], end |-> r[2], speaker |-> speaker]>>
    ELSE LET prev == merged[Len(merged)]
         IN  IF ShouldMerge(prev, r[1], speaker)
             THEN [merged EXCEPT ![Len(merged)] = Extend(prev, r[2])]
             ELSE Append(merged, [start |-> r[1], end |-> r[2], speaker |-> speaker])

RECURSIVE Segments(_, _, _, _, _)
Segments(sp, labels, ordered, i, merged) ==
    IF i > Len(sp) THEN merged
    ELSE Segments(sp, labels, ordered, i + 1,
                  SegmentStep(merged, sp[i], LabelName(ordered, labels[i])))

\* A count that reports the chosen k instead of the names in use.
NumSpeakersChosenK(ordered, k) == Max2(1, k)

\* line 416: len(ordered)
NumSpeakers(ordered, k) == Len(ordered)

NoDia == [k |-> 0, seed |-> 0, best_labels |-> None, best_inertia |-> Inf,
          labels |-> <<>>]

\* lines 359-363, and the call of detect_speech_regions.
DiaStart ==
    /\ pc = "dia_start"
    /\ IF audio = <<>>
       THEN /\ Return(EmptyResult)
       ELSE /\ pc' = "vad_mask"
            /\ stack' = <<"dia_extract">> \o stack
            /\ UNCHANGED result
    /\ UNCHANGED <<audio, min_speakers, max_speakers, speech_mask, fixed, regions,
                   speech, x, km, csc, dia>>

\* lines 364-379: one embedding per interval (extract_embedding's value is
\* an input here), and the call of choose_speaker_count.
DiaExtract ==
    /\ pc = "dia_extract"
    /\ IF speech = <<>>
       THEN /\ Return(EmptyResult)
            /\ UNCHANGED x
       ELSE /\ x' \in Points(Len(speech))
            /\ pc' = "csc_start"
            /\ stack' = <<"dia_csc_ret">> \o stack
            /\ UNCHANGED result
    /\ UNCHANGED <<audio, min_speakers, max_speakers, speech_mask, fixed, regions,
                   speech, km, csc, dia>>

\* lines 379-384
DiaCscRet ==
    /\ pc = "dia_csc_ret"
    /\ IF csc.ret <= 1
       THEN /\ dia' = [NoDia EXCEPT !.k = csc.ret, !.labels = [i \in DOMAIN x |-> 0]]
            /\ pc' = "dia_assemble"
       ELSE /\ dia' = [NoDia EXCEPT !.k = csc.ret, !.seed = 1]
            /\ pc' = "dia_seed"
    /\ UNCHANGED <<stack, audio, min_speakers, max_speakers, speech_mask, fixed,
                   regions, speech, x, km, csc, result>>

\* lines 385-386, 390
DiaSeed ==
    /\ pc = "dia_seed"
    /\ IF dia.seed <= Seeds
       THEN /\ CallKmeans(dia.k, "dia_seed_ret")
            /\ UNCHANGED dia
       ELSE /\ dia' = [dia EXCEPT !.labels = IF dia.best_labels # None
                                             THEN dia.best_labels
                                             ELSE [i \in DOMAIN x |-> 0]]
            /\ pc' = "dia_assemble"
            /\ UNCHANGED <<stack, km>>
    /\ UNCHANGED <<audio, min_speakers, max_speakers, speech_mask, fixed, regions,
                   speech, x, csc, result>>

\* lines 387-389
DiaSeedRet ==
    /\ pc = "dia_seed_ret"
    /\ dia' = IF InertiaLess(km.inertia, dia.best_inertia)
              THEN [dia EXCEPT !.best_inertia = km.inertia, !.best_labels = km.labels,
                               !.seed = dia.seed + 1]
              ELSE [dia EXCEPT !.seed = dia.seed + 1]
    /\ pc' = "dia_seed"
    /\ UNCHANGED <<stack, audio, min_speakers, max_speakers, speech_mask, fixed,
                   regions, speech, x, km, csc, result>>

\* lines 392-416
DiaAssemble ==
    /\ pc = "dia_assemble"
    /\ LET ordered == Ordered(dia.labels, speech)
       IN  Return([segments |-> Segments(speech, dia.labels, ordered, 1, <<>>),
                   num_speakers |-> NumSpeakers(ordered, dia.k)])
    /\ UNCHANGED <<audio, min_speakers, max_speakers, speech_mask, fixed, regions,
                   speech, x, km, csc, dia>>

\* main, lines 431-432: min_speakers >= 1 and max_speakers >= min_speakers.
SpeakerArgs ==
    {a \in (1..MaxSpeakers) \X (1..MaxSpeakers) : a[1] <= a[2]}

\* The arguments diarize is run with: main's defaults, min_speakers = 1 with
\* the largest maximum, and a forced count.
DiarizeArgs == {<<1, MaxSpeakers>>, <<MaxSpeakers - 1, MaxSpeakers - 1>>}

InitCSC ==
    /\ pc = "csc_start"
    /\ stack = <<>>
    /\ audio = <<>>
    /\ \E a \in SpeakerArgs : min_speakers = a[1] /\ max_speakers = a[2]
    /\ speech_mask = <<>>
    /\ fixed = <<>>
    /\ regions = <<>>
    /\ speech = <<>>
    /\ \E n \in 1..MaxPoints : x \in Points(n)
    /\ km = NoKm
    /\ csc = NoCsc
    /\ dia = NoDia
    /\ result = <<>>

NextCSC ==
    \/ CscStart \/ CscSeed \/ CscSeedRet \/ CscScore \/ CscEnd
    \/ KmStart \/ KmInit \/ KmIterate \/ KmFinal

SpecCSC == InitCSC /\ [][NextCSC]_vars

InitKM ==
    /\ pc = "km_start"
    /\ stack = <<>>
    /\ audio = <<>>
    /\ min_speakers = 1
    /\ max_speakers = 1
    /\ speech_mask = <<>>
    /\ fixed = <<>>
    /\ regions = <<>>
    /\ speech = <<>>
    /\ \E n \in 1..MaxKmPoints : x \in Points(n)
    /\ \E k \in 1..MaxSpeakers : km = [NoKm EXCEPT !.k = k]
    /\ csc = NoCsc
    /\ dia = NoDia
    /\ result = <<>>

NextKM == KmStart \/ KmInit \/ KmIterate \/ KmFinal

SpecKM == InitKM /\ [][NextKM]_vars

InitVAD ==
    /\ pc = "vad_mask"
    /\ stack = <<>>
    /\ AudioIsTrack(MaxRuns, RunLens)
    /\ min_speakers = 1
    /\ max_speakers = 1
    /\ speech_mask = <<>>
    /\ fixed = <<>>
    /\ regions = <<>>
    /\ speech = <<>>
    /\ x = <<>>
    /\ km = NoKm
    /\ csc = NoCsc
    /\ dia = NoDia
    /\ result = <<>>

NextVAD == VadMask \/ VadFill \/ VadRuns \/ VadMerge

SpecVAD == InitVAD /\ [][NextVAD]_vars

Init ==
    /\ pc = "dia_start"
    /\ stack = <<>>
    /\ AudioIsTrack(MaxTrackRuns, TrackLens)
    /\ \E a \in DiarizeArgs : min_speakers = a[1] /\ max_speakers = a[2]
    /\ speech_mask = <<>>
    /\ fixed = <<>>
    /\ regions = <<>>
    /\ speech = <<>>
    /\ x = <<>>
    /\ km = NoKm
    /\ csc = NoCsc
    /\ dia = NoDia
    /\ result = <<>>

Next ==
    \/ DiaStart \/ DiaExtract \/ DiaCscRet \/ DiaSeed \/ DiaSeedRet \/ DiaAssemble
    \/ VadMask \/ VadFill \/ VadRuns \/ VadMerge
    \/ CscStart \/ CscSeed \/ CscSeedRet \/ CscScore \/ CscEnd
    \/ KmStart \/ KmInit \/ KmIterate \/ KmFinal

Spec == Init /\ [][Next]_vars

(***************************************************************************)
(* Properties of detect_speech_regions.                                    *)
(***************************************************************************)
\* The mask has been hole-filled in this state.
Filled == pc \in {"vad_runs", "vad_merge", "done", "dia_extract"} /\ speech_mask # <<>>

\* Frames first..last (0-based) are a maximal run of inactive frames of mask.
InactiveRun(mask, first, last) ==
    /\ first <= last
    /\ \A i \in first..last : ~mask[i + 1]
    /\ (first = 0 \/ mask[first])
    /\ (last = Len(mask) - 1 \/ mask[last + 2])

\* The hole frames before first and the hole frames after last exist and are active.
FullWindows(mask, first, last) ==
    /\ first - hole >= 0
    /\ last + hole <= Len(mask) - 1
    /\ \A j \in (first - hole)..(first - 1) : mask[j + 1]
    /\ \A j \in (last + 1)..(last + hole) : mask[j + 1]

\* C8: every run of 1 to hole - 1 (= 11) consecutive inactive frames whose
\* preceding and following 0.12 s windows are fully active is entirely
\* flipped to active by the hole filling.
C8_ShortGapsClosed ==
    Filled =>
        \A first \in 0..(Len(speech_mask) - 1) :
            \A last \in first..Min2(first + hole - 2, Len(speech_mask) - 1) :
                (/\ InactiveRun(speech_mask, first, last)
                 /\ FullWindows(speech_mask, first, last))
                    => \A i \in first..last : fixed[i + 1]

\* What the hole filling does: a single inactive frame between two fully
\* active windows is flipped, every inactive run of two or more frames stays
\* inactive, and active frames stay active.
C8_SingleFrameHolesClosed ==
    Filled =>
        /\ Len(fixed) = Len(speech_mask)
        /\ \A i \in 0..(Len(speech_mask) - 1) :
              /\ speech_mask[i + 1] => fixed[i + 1]
              /\ (InactiveRun(speech_mask, i, i) /\ FullWindows(speech_mask, i, i))
                    => fixed[i + 1]
              /\ (~speech_mask[i + 1] /\ ~InactiveRun(speech_mask, i, i))
                    => ~fixed[i + 1]

\* The hole filling flipped an inactive frame.
C8_Witness ==
    /\ Filled
    /\ \E i \in DOMAIN fixed : fixed[i] /\ ~speech_mask[i]

\* The raw runs the merge loop keeps (duration >= min_duration).
Kept(rs) == {i \in DOMAIN rs : ~Shorter(rs[i][1], rs[i][2])}

\* C9: the returned intervals have end > start, each covers an active run of
\* at least 0.65 s, and consecutive intervals are ascending and separated by
\* a gap strictly greater than 0.35 s (so they do not overlap).
C9_IntervalsSeparated ==
    (pc = "done" /\ audio # <<>>) =>
        /\ \A i \in DOMAIN speech :
              /\ speech[i][2] > speech[i][1]
              /\ \E r \in Kept(regions) :
                    /\ speech[i][1] <= regions[r][1] /\ regions[r][2] <= speech[i][2]
                    /\ regions[r][2] - regions[r][1] >= min_duration
        /\ \A i \in 1..(Len(speech) - 1) :
              /\ speech[i][1] < speech[i + 1][1]
              /\ ~WithinGap(speech[i + 1][1], speech[i][2])
              /\ speech[i + 1][1] - speech[i][2] >= max_gap
        /\ \A r \in Kept(regions) : \E i \in DOMAIN speech :
              speech[i][1] <= regions[r][1] /\ regions[r][2] <= speech[i][2]

\* Two kept runs were merged into one interval, and a short run was dropped.
C9_Witness ==
    /\ pc = "done"
    /\ Len(speech) >= 1
    /\ Cardinality(Kept(regions)) > Len(speech)
    /\ Cardinality(Kept(regions)) < Len(regions)

(***************************************************************************)
(* Properties of run_kmeans.                                               *)
(***************************************************************************)
\* Sum of squared distances of the points to the mean of all points.
TotalVariance(pts) ==
    LET m == Mean(pts, DOMAIN pts)
    IN  SumSeq([i \in DOMAIN pts |-> SqDist(pts[i], m)])

\* Inertia of the current assignment with respect to the current centres.
CurInertia == Inertia(x, km.centers, km.labels)

\* C5: for k = 1, run_kmeans returns the all-zero assignment and an inertia
\* equal to the total variance of the points, the centre being their mean.
C5_K1InertiaIsTotalVariance ==
    (pc = "done" /\ km.k = 1) =>
        /\ \A i \in DOMAIN x : result.labels[i] = 0
        /\ result.inertia = TotalVariance(x)
        /\ result.centers = <<Mean(x, DOMAIN x)>>

\* C10: from one pass of the loop of run_kmeans to the next the inertia of
\* the current assignment never increases (empty-cluster reseeding included);
\* the loop goes on only while the assignment changes, makes at most
\* max_iter passes, and ends only once the assignment is stable or max_iter
\* passes were made.
C10_Step ==
    pc = "km_iter" =>
        /\ CurInertia' <= CurInertia
        /\ km'.it <= max_iter
        /\ pc' = "km_iter" => (km'.labels # km.labels /\ km'.it = km.it + 1)
        /\ pc' = "km_final" =>
              (NearestLabels(x, km.centers) = km.labels \/ km.it = max_iter)

C10_InertiaNonIncreasing == [][C10_Step]_vars

\* A converged run, with no more clusters than points, in which an empty
\* cluster was reseeded.
C10_Witness ==
    /\ pc = "km_final"
    /\ km.it >= 1
    /\ km.k <= Len(x)
    /\ \E j \in 0..(km.k - 1) : Members(km.labels, j) = {}

(***************************************************************************)
(* Properties of choose_speaker_count.                                     *)
(***************************************************************************)
\* C7: choose_speaker_count returns 1 when n < 3 or min(max_speakers, n) <= 1,
\* otherwise 1 or a k in max(2, min_speakers) .. min(max_speakers, n); never
\* more than max_speakers or n, never less than 1.
C7_ReturnedCountInRange ==
    pc = "done" =>
        LET n == Len(x)
        IN  /\ (n < 3 \/ Min2(max_speakers, n) <= 1) => result = 1
            /\ \/ result = 1
               \/ result \in Max2(2, min_speakers)..Min2(max_speakers, n)
            /\ result <= max_speakers
            /\ result <= n
            /\ result >= 1

\* C7 as the code has it: the sweep starts at max(2, min(min_speakers,
\* min(max_speakers, n))), min_speakers being clamped to the feasible maximum.
C7_ReturnedCountInClampedRange ==
    pc = "done" =>
        LET n == Len(x)
            cap == Min2(max_speakers, n)
        IN  /\ (n < 3 \/ cap <= 1) => result = 1
            /\ \/ result = 1
               \/ result \in Max2(2, Min2(min_speakers, cap))..cap
            /\ result <= max_speakers
            /\ result <= n
            /\ result >= 1

\* A count below min_speakers is returned because fewer rows exist.
C7_Witness ==
    /\ pc = "done"
    /\ result >= 2
    /\ result < min_speakers

(***************************************************************************)
(* Properties of diarize.                                                  *)
(***************************************************************************)
Segs == result.segments

\* C1: no two consecutive returned segments have the same speaker and a gap
\* (next.start - previous.end) of at most 0.45 s.
C1_MergeExhaustive ==
    pc = "done" =>
        \A i \in 1..(Len(Segs) - 1) :
            ~(/\ Segs[i].speaker = Segs[i + 1].speaker
              /\ WithinMergeGap(Segs[i + 1].start, Segs[i].end))

\* Two intervals 0.45 s apart were merged, and two consecutive segments of one
\* speaker further apart were kept.
C1_Witness ==
    /\ pc = "done"
    /\ \E i \in 1..(Len(speech) - 1) :
          /\ speech[i + 1][1] - speech[i][2] = max_merge_gap
          /\ \E s \in 1..Len(Segs) :
                Segs[s].start <= speech[i][1] /\ speech[i + 1][2] <= Segs[s].end
    /\ \E i \in 1..(Len(Segs) - 1) : Segs[i].speaker = Segs[i + 1].speaker

\* C2: the returned segments are sorted by start, do not overlap, and each
\* has start < end.
C2_SegmentsOrdered ==
    pc = "done" =>
        /\ \A i \in 1..Len(Segs) : Segs[i].start < Segs[i].end
        /\ \A i \in 1..(Len(Segs) - 1) :
              /\ Segs[i].start < Segs[i + 1].start
              /\ Segs[i].end <= Segs[i + 1].start

\* Segments of two speakers, one of them merged from two intervals.
C2_Witness ==
    /\ pc = "done"
    /\ result.num_speakers >= 2
    /\ Len(Segs) >= 2
    /\ Len(Segs) < Len(speech)

SpeakerNames == {Segs[i].speaker : i \in 1..Len(Segs)}

\* C3: num_speakers is the number of distinct speaker names in the segments.
C3_NumSpeakersCountsNames ==
    pc = "done" => result.num_speakers = Cardinality(SpeakerNames)

\* Three clusters were asked for and only two of them have members.
C3_Witness ==
    /\ pc = "done"
    /\ dia.k = 3
    /\ result.num_speakers = 2
    /\ Len(Segs) >= 2

\* Every frame's RMS is at or below max(2.2 * noise floor, 0.015).
AllAtOrBelowThreshold ==
    LET rms == Expand(audio)
    IN  \A i \in DOMAIN rms :
            rms[i] <= FixedFloor \/ 25 * rms[i] <= 11 * Percentile20x5(rms)

\* C4: an empty buffer, or no detected interval (as when every frame is at or
\* below the threshold), gives {segments: [], num_speakers: 0}, and neither
\* feature extraction nor clustering has run.
C4_EmptyInputEmptyResult ==
    pc = "done" =>
        /\ (audio = <<>> \/ speech = <<>> \/ AllAtOrBelowThreshold) =>
              /\ result = EmptyResult
              /\ x = <<>>
              /\ km = NoKm
              /\ csc = NoCsc
              /\ dia = NoDia
        /\ audio = <<>> => (speech_mask = <<>> /\ regions = <<>>)

\* A non-empty, uniformly loud buffer: the noise floor puts every frame below
\* the threshold.
C4_Witness ==
    /\ pc = "done"
    /\ audio # <<>>
    /\ \A i \in DOMAIN audio : audio[i][2] = Loud
    /\ AllAtOrBelowThreshold
    /\ result = EmptyResult

FirstSegment(name) == CHOOSE i \in 1..Len(Segs) :
    Segs[i].speaker = name /\ \A j \in 1..(i - 1) : Segs[j].speaker # name

\* C6: the first segment is Participant 1, Participant N+1 first occurs after
\* Participant N first occurs, and the names in use are exactly
\* Participant 1 .. Participant num_speakers.
C6_NamesByFirstAppearance ==
    (pc = "done" /\ Segs # <<>>) =>
        /\ Segs[1].speaker = ParticipantName(0)
        /\ SpeakerNames = {ParticipantName(j) : j \in 0..(result.num_speakers - 1)}
        /\ \A j \in 0..(result.num_speakers - 2) :
              FirstSegment(ParticipantName(j)) < FirstSegment(ParticipantName(j + 1))

\* The first interval's raw cluster id is not 0, and two names are in use.
C6_Witness ==
    /\ pc = "done"
    /\ result.num_speakers >= 2
    /\ dia.labels[1] # 0


====
